---- MODULE Spec2Model ----
(***************************************************************************)
(* Model of the MPI heat-equation solvers of hpc-heat-solver.              *)
(*                                                                         *)
(*  - HeatSolverMPI (heat_solver_mpi-checkpoint.py): 2D Cartesian domain   *)
(*    decomposition, ghost-cell exchange with four sendrecv calls, 5-point *)
(*    stencil, Dirichlet boundaries, gather of the global field on rank 0. *)
(*    Spec is run after construction; SpecStartup is the construction      *)
(*    itself from unvalidated inputs; SpecGather, SpecTwice and            *)
(*    SpecScenario are prefixes or instances of the run.                   *)
(*  - heat_solver_working.py: the 1D row decomposition (sizes, start_row)  *)
(*    and its time step.                                                   *)
(*                                                                         *)
(* Temperatures are exact rationals stored as integers scaled by Scale;    *)
(* the float NaN is the value NaN, absorbing in every arithmetic step.     *)
(***************************************************************************)
EXTENDS Integers, Sequences, FiniteSets, TLC

\* ------------------------------------------------------------------ bounds
MaxSize == 4
MaxN == 3
MaxSteps == 2

\* ------------------------------------------------- constants of the program
T_HOT == 100
T_COLD == 0
T_INITIAL == 20
PROC_NULL == -1
COMM_NULL == -2
NaN == -7

VARIABLES size, nx_global, ny_global, save_interval, num_steps, send_mode, cart_rank, config,
          neighbors,
          pc, step, u, u_new, chan, sizes_q, data_q, sizes, bar, gathered, written, pre

vars == <<size, nx_global, ny_global, save_interval, num_steps, send_mode, cart_rank, config,
          neighbors,
          pc, step, u, u_new, chan, sizes_q, data_q, sizes, bar, gathered, written, pre>>

Min(a, b) == IF a < b THEN a ELSE b
Max(a, b) == IF a < b THEN b ELSE a

\* ---------------------------------------------------------------- topology
\* MPI.Compute_dims(size, [0, 0]): the balanced factorisation, dims[0] >= dims[1].
Compute_dims(n) ==
    LET py == CHOOSE d \in 1..n :
                 /\ n % d = 0 /\ d * d <= n
                 /\ \A e \in 1..n : (n % e = 0 /\ e * e <= n) => e <= d
    IN <<n \div py, py>>

\* Cartcomm.Get_coords: row-major coordinates of a rank of the Cartesian communicator.
Get_coords(dims, r) == <<r \div dims[2], r % dims[2]>>

\* The rank at given coordinates; PROC_NULL outside the (non-periodic) grid.
Get_cart_rank(dims, c) ==
    IF c[1] \in 0..(dims[1] - 1) /\ c[2] \in 0..(dims[2] - 1)
    THEN c[1] * dims[2] + c[2]
    ELSE PROC_NULL

\* Cartcomm.Shift(direction, disp) called by rank r: <<source, dest>>,
\* source at coordinate - disp, dest at coordinate + disp along the axis.
Shift(dims, r, direction, disp) ==
    LET c == Get_coords(dims, r)
        at(d) == IF direction = 0 THEN <<c[1] + d, c[2]>> ELSE <<c[1], c[2] + d>>
    IN <<Get_cart_rank(dims, at(-disp)), Get_cart_rank(dims, at(disp))>>

\* self.neighbors of setup_topology, for Cartesian rank r.
setup_neighbors(dims, r) ==
    [north |-> Shift(dims, r, 0, 1)[1],
     south |-> Shift(dims, r, 0, 1)[2],
     west  |-> Shift(dims, r, 1, -1)[1],
     east  |-> Shift(dims, r, 1, 1)[2]]

\* --------------------------------------------------------------- partition
\* Mutation: the remainder test lets one coordinate too many take an extra cell.
local_size_off_by_one(N, P, coord) == (N \div P) + (IF coord <= N % P THEN 1 ELSE 0)

\* nx_local / ny_local of setup_topology: N // P, plus one below the remainder.
local_size(N, P, coord) == (N \div P) + (IF coord < N % P THEN 1 ELSE 0)

\* Mutation: the offset forgets the remainder cells of the lower coordinates.
offset_without_remainder(N, P, coord) == coord * (N \div P)

\* i_start / j_start of gather_global_solution.
offset(N, P, coord) == coord * (N \div P) + Min(coord, N % P)

\* heat_solver_working.py: nx_local of a rank of the 1D row decomposition.
nx_local_1d(N, P, rank) == (N \div P) + (IF rank < N % P THEN 1 ELSE 0)

\* heat_solver_working.py: start_row of a rank.
start_row(N, P, rank) ==
    IF rank < N % P
    THEN rank * ((N \div P) + 1)
    ELSE (N % P) * ((N \div P) + 1) + (rank - (N % P)) * (N \div P)

\* ------------------------------------------------- per-process configuration
\* Processes are named by their rank in self.comm (COMM_WORLD); cart_rank[p] is the
\* rank Create_cart(reorder=True) gives process p in the Cartesian communicator.
Procs == 0..(size - 1)

\* self.config of setup_topology for the process with Cartesian rank r
\* (dx, dy, dt enter only through rx, ry below).
GridConfig(n, Nx, Ny, r) ==
    LET d == Compute_dims(n)
        c == Get_coords(d, r)
    IN [nx_global |-> Nx, ny_global |-> Ny,
        nx_local |-> local_size(Nx, d[1], c[1]),
        ny_local |-> local_size(Ny, d[2], c[2]),
        coords |-> c, dims |-> d]

dims == config[0].dims

coords(p) == config[p].coords

nx_local(p) == config[p].nx_local

ny_local(p) == config[p].ny_local

\* The process holding a rank of the Cartesian communicator.
proc_of(r) == CHOOSE p \in Procs : cart_rank[p] = r

\* ------------------------------------------------------------- arithmetic
\* dx = 1/(nx_global-1), dy = 1/(ny_global-1), dt = 0.25*min(dx^2,dy^2)/ALPHA, so
\* rx = ALPHA*dt/dx^2 = RM/RD and ry = ALPHA*dt/dy^2 = RN/RD (ALPHA cancels).
RM == (nx_global - 1) * (nx_global - 1)

RN == (ny_global - 1) * (ny_global - 1)

\* Mutation: dt is taken from the larger of the two spacings, max(dx^2, dy^2).
RD_from_larger_spacing == 4 * Min(RM, RN)

RD == 4 * Max(RM, RN)

\* heat_solver_working.py: dt = 0.25 * min(dx, dy)**2 / alpha, so the denominator of
\* rx = alpha*dt/dx^2 and ry = alpha*dt/dy^2 is 4 * max(nx_global-1, ny_global-1)^2.
RD_1d == 4 * Max(nx_global - 1, ny_global - 1) * Max(nx_global - 1, ny_global - 1)

RECURSIVE Pow(_, _)
Pow(b, e) == IF e = 0 THEN 1 ELSE b * Pow(b, e - 1)

\* A temperature t is stored as t * Scale; MaxSteps stencil steps stay exact.
Scale == Pow(RD, MaxSteps)

n_steps == MaxSteps

\* One cell of the 5-point stencil of apply_stencil; NaN is absorbing.
stencil_cell(c, n, s, w, e) ==
    IF NaN \in {c, n, s, w, e} THEN NaN
    ELSE c + ((RM * (n - 2 * c + s) + RN * (w - 2 * c + e)) \div RD)

\* ------------------------------------------------------------------ fields
\* A field of nx x ny interior cells is [0..nx+1 -> [0..ny+1 -> value]].
full(nx, ny, v) == [i \in 0..(nx + 1) |-> [j \in 0..(ny + 1) |-> v]]

set_row(f, i, v) == [f EXCEPT ![i] = [j \in DOMAIN f[i] |-> v]]

set_col(f, j, v) == [i \in DOMAIN f |-> [f[i] EXCEPT ![j] = v]]

\* apply_boundary_conditions on one array: top, bottom, left, right, in that order.
boundary(f, nb, nx, ny) ==
    LET f1 == IF nb.north = PROC_NULL THEN set_row(f, 0, T_HOT * Scale) ELSE f
        f2 == IF nb.south = PROC_NULL THEN set_row(f1, nx + 1, T_COLD * Scale) ELSE f1
        f3 == IF nb.west = PROC_NULL THEN set_col(f2, 0, T_COLD * Scale) ELSE f2
        f4 == IF nb.east = PROC_NULL THEN set_col(f3, ny + 1, T_COLD * Scale) ELSE f3
    IN f4

\* initialize_grid: both arrays full of T_INITIAL, then the boundary conditions.
initial_field(nb, nx, ny) == boundary(full(nx, ny, T_INITIAL * Scale), nb, nx, ny)

\* u[i, 1:-1] and u[1:-1, j] as the sequences that are sent.
row_slice(f, i, ny) == [j \in 1..ny |-> f[i][j]]

col_slice(f, j, nx) == [i \in 1..nx |-> f[i][j]]

\* u[i, 1:-1] = data and u[1:-1, j] = data; data is None when the source is
\* PROC_NULL, and numpy stores None into a float64 array as NaN.
assign_row(f, i, ny, none, data) ==
    [f EXCEPT ![i] = [j \in DOMAIN f[i] |->
        IF j \in 1..ny THEN (IF none THEN NaN ELSE data[j]) ELSE f[i][j]]]

assign_col(f, j, nx, none, data) ==
    [i \in DOMAIN f |->
        IF i \in 1..nx THEN [f[i] EXCEPT ![j] = IF none THEN NaN ELSE data[i]]
        ELSE f[i]]

\* The interior update of apply_stencil: u_new[1:-1, 1:-1] from u.
stencil(f, g, nx, ny) ==
    [i \in DOMAIN g |-> [j \in DOMAIN g[i] |->
        IF i \in 1..nx /\ j \in 1..ny
        THEN stencil_cell(f[i][j], f[i - 1][j], f[i + 1][j], f[i][j - 1], f[i][j + 1])
        ELSE g[i][j]]]

\* ------------------------------------------------- exchange_ghost_cells
\* The k-th sendrecv call: what is sent, to whom, from whom, and where it lands.
send_dest(p, k) ==
    CASE k = 1 -> neighbors[p].north
      [] k = 2 -> neighbors[p].south
      [] k = 3 -> neighbors[p].west
      [] k = 4 -> neighbors[p].east

recv_source(p, k) ==
    CASE k = 1 -> neighbors[p].south
      [] k = 2 -> neighbors[p].north
      [] k = 3 -> neighbors[p].east
      [] k = 4 -> neighbors[p].west

sendobj(f, p, k) ==
    CASE k = 1 -> row_slice(f, 1, ny_local(p))
      [] k = 2 -> row_slice(f, nx_local(p), ny_local(p))
      [] k = 3 -> col_slice(f, 1, nx_local(p))
      [] k = 4 -> col_slice(f, ny_local(p), nx_local(p))

\* Length of the halo slot the k-th call assigns to.
slot_len(p, k) == IF k \in {1, 2} THEN ny_local(p) ELSE nx_local(p)

recv_assign(p, k, none, data) ==
    CASE k = 1 -> assign_row(u[p], nx_local(p) + 1, ny_local(p), none, data)
      [] k = 2 -> assign_row(u[p], 0, ny_local(p), none, data)
      [] k = 3 -> assign_col(u[p], ny_local(p) + 1, nx_local(p), none, data)
      [] k = 4 -> assign_col(u[p], 0, nx_local(p), none, data)

\* ------------------------------------------------- gather_global_solution
\* local_solution.flatten(): the interior u[1:-1, 1:-1] in row-major order.
flatten(f, nx, ny) == [k \in 1..(nx * ny) |-> f[1 + ((k - 1) \div ny)][1 + ((k - 1) % ny)]]

\* offset of the loop: the sum of sizes[q] for q < p.
RECURSIVE data_offset(_, _)
data_offset(sz, p) == IF p = 0 THEN 0 ELSE data_offset(sz, p - 1) + sz[p - 1]

\* gathered_data after Gatherv: the blocks of ranks 0..p of self.comm, in rank order.
RECURSIVE gathered_data(_, _)
gathered_data(blocks, p) ==
    IF p < 0 THEN <<>> ELSE gathered_data(blocks, p - 1) \o blocks[p]

\* The coordinates the reconstruction gives the block of position p.
p_coords(p) == Get_coords(dims, p)

p_nx_local(p) == local_size(nx_global, dims[1], p_coords(p)[1])

p_ny_local(p) == local_size(ny_global, dims[2], p_coords(p)[2])

i_start(p) == offset(nx_global, dims[1], p_coords(p)[1])

j_start(p) == offset(ny_global, dims[2], p_coords(p)[2])

\* reshape(p_nx_local, p_ny_local) raises unless the sizes agree.
reshape_ok(sz, p) == sz[p] = p_nx_local(p) * p_ny_local(p)

\* global_solution[i_start:i_start+p_nx_local, j_start:j_start+p_ny_local] = data
place(g, gd, sz, p) ==
    [i \in DOMAIN g |-> [j \in DOMAIN g[i] |->
        IF /\ i \in i_start(p)..(i_start(p) + p_nx_local(p) - 1)
           /\ j \in j_start(p)..(j_start(p) + p_ny_local(p) - 1)
        THEN gd[data_offset(sz, p) + (i - i_start(p)) * p_ny_local(p) + (j - j_start(p)) + 1]
        ELSE g[i][j]]]

\* The loop over p in range(size), from np.zeros((nx_global, ny_global)).
RECURSIVE place_blocks(_, _, _)
place_blocks(gd, sz, p) ==
    IF p < 0
    THEN [i \in 0..(nx_global - 1) |-> [j \in 0..(ny_global - 1) |-> 0]]
    ELSE place(place_blocks(gd, sz, p - 1), gd, sz, p)

\* The value gather_global_solution returns on rank 0 when size > 1.
global_solution(blocks, sz) ==
    IF \A p \in Procs : reshape_ok(sz, p)
    THEN [kind |-> "array", field |-> place_blocks(gathered_data(blocks, size - 1), sz, size - 1)]
    ELSE [kind |-> "error", field |-> <<>>]

\* The value it returns when size == 1: self.u[1:-1, 1:-1].
local_solution(f, nx, ny) ==
    [i \in 0..(nx - 1) |-> [j \in 0..(ny - 1) |-> f[i + 1][j + 1]]]

\* ------------------------------------------------------ compute_max_error
\* One cell of np.abs(u_new - u); NaN propagates.
abs_diff(a, b) == IF a = NaN \/ b = NaN THEN NaN ELSE IF a < b THEN b - a ELSE a - b

\* np.abs(self.u_new[1:-1, 1:-1] - self.u[1:-1, 1:-1]) as the set of its values.
interior_diffs(f, g, nx, ny) == {abs_diff(g[i][j], f[i][j]) : i \in 1..nx, j \in 1..ny}

set_max(S) == CHOOSE m \in S : \A x \in S : x <= m

\* local_max: np.max returns NaN as soon as one cell is NaN.
local_max(f, g, nx, ny) ==
    LET d == interior_diffs(f, g, nx, ny)
    IN IF NaN \in d THEN NaN ELSE set_max(d)

\* comm.allreduce(local_max, op=MPI.MAX) on pickled Python floats: the values it may
\* return. Every comparison with NaN is false, so with a NaN among the operands the
\* result depends on the order in which the operands are combined.
allreduce_max(vals) == IF NaN \in vals THEN vals ELSE {set_max(vals)}

\* np.max raises ValueError on a process whose interior is empty.
compute_max_error_raises == \E p \in Procs : nx_local(p) * ny_local(p) = 0

\* The values compute_max_error may return (the same one on every process).
compute_max_error ==
    allreduce_max({local_max(u[p], u_new[p], nx_local(p), ny_local(p)) : p \in Procs})

\* save_solution: the test that guards the writing of the snapshot file; kind is
\* "none" when gather_global_solution returned None.
writes_file(p, kind) == p = 0 /\ kind # "none"

\* The snapshot files a process has written, after save_solution(timestep).
save_solution(w, p, kind, timestep) ==
    IF writes_file(p, kind) THEN [w EXCEPT ![p] = @ \cup {timestep}] ELSE w

\* ------------------------------------------------------------------- run
RecvPc(k) == CASE k = 1 -> "recv1" [] k = 2 -> "recv2" [] k = 3 -> "recv3" [] k = 4 -> "recv4"

\* Where run continues after save_solution(step).
after_save(s) ==
    IF s = 0 THEN "barrier"
    ELSE IF s < n_steps THEN "exchange" ELSE "barrier"

after_save_step(s) == IF s = 0 \/ s >= n_steps THEN s ELSE s + 1

\* Create_cart(dims, periods, reorder=True) may give a process another rank than it
\* has in self.comm: the ranks are kept, or (one reordering) rotated by one.
Reorderings ==
    {[r \in 0..(size - 1) |-> (r + k) % size] : k \in {0, 1}}

Init ==
    /\ size \in 1..MaxSize
    /\ nx_global \in 2..MaxN
    /\ ny_global \in 2..MaxN
    /\ save_interval \in {1, MaxSteps + 1}
    /\ num_steps = n_steps
    /\ send_mode = "standard"
    /\ cart_rank \in Reorderings
    /\ config = [p \in Procs |-> GridConfig(size, nx_global, ny_global, cart_rank[p])]
    /\ neighbors = [p \in Procs |-> setup_neighbors(Compute_dims(size), cart_rank[p])]
    /\ pc = [p \in Procs |-> "save"]
    /\ step = [p \in Procs |-> 0]
    /\ u = [p \in Procs |-> initial_field(neighbors[p], nx_local(p), ny_local(p))]
    /\ u_new = [p \in Procs |-> initial_field(neighbors[p], nx_local(p), ny_local(p))]
    /\ chan = [s \in Procs |-> [d \in Procs |-> <<>>]]
    /\ sizes_q = [p \in Procs |-> <<>>]
    /\ data_q = [p \in Procs |-> <<>>]
    /\ sizes = <<>>
    /\ bar = [p \in Procs |-> 0]
    /\ gathered = [p \in Procs |-> [kind |-> "unset", step |-> 0, field |-> <<>>]]
    /\ written = [p \in Procs |-> {}]
    /\ pre = [p \in Procs |-> <<>>]

Config ==
    <<size, nx_global, ny_global, save_interval, num_steps, send_mode, cart_rank, config,
      neighbors>>

\* gather_global_solution with size == 1: returns the local interior, no transfer.
GatherSingle(p) ==
    /\ pc[p] = "save" /\ size = 1
    /\ gathered' = [gathered EXCEPT ![p] =
          [kind |-> "array", step |-> step[p],
           field |-> local_solution(u[p], nx_local(p), ny_local(p))]]
    /\ written' = save_solution(written, p, "array", step[p])
    /\ pc' = [pc EXCEPT ![p] = after_save(step[p])]
    /\ step' = [step EXCEPT ![p] = after_save_step(step[p])]
    /\ UNCHANGED <<Config, u, u_new, chan, sizes_q, data_q, sizes, bar, pre>>

\* comm.gather(local_size, root=0) on a rank other than 0.
GatherSizes(p) ==
    /\ pc[p] = "save" /\ size > 1 /\ p # 0
    /\ sizes_q' = [sizes_q EXCEPT ![p] = Append(@, nx_local(p) * ny_local(p))]
    /\ pc' = [pc EXCEPT ![p] = "gatherv"]
    /\ UNCHANGED <<Config, step, u, u_new, chan, data_q, sizes, bar, gathered, written, pre>>

\* comm.gather(local_size, root=0) on rank 0: returns once every rank has sent.
GatherSizesRoot ==
    /\ pc[0] = "save" /\ size > 1
    /\ \A q \in Procs \ {0} : sizes_q[q] # <<>>
    /\ sizes' = [q \in Procs |->
          IF q = 0 THEN nx_local(0) * ny_local(0) ELSE Head(sizes_q[q])]
    /\ sizes_q' = [q \in Procs |-> IF q = 0 THEN <<>> ELSE Tail(sizes_q[q])]
    /\ pc' = [pc EXCEPT ![0] = "gatherv"]
    /\ UNCHANGED <<Config, step, u, u_new, chan, data_q, bar, gathered, written, pre>>

\* Mutation: a rank other than 0 returns its own block instead of None.
Gatherv_returns_block(p) ==
    /\ pc[p] = "gatherv" /\ p # 0
    /\ data_q' = [data_q EXCEPT ![p] = Append(@, flatten(u[p], nx_local(p), ny_local(p)))]
    /\ gathered' = [gathered EXCEPT ![p] =
          [kind |-> "array", step |-> step[p],
           field |-> local_solution(u[p], nx_local(p), ny_local(p))]]
    /\ written' = save_solution(written, p, "array", step[p])
    /\ pc' = [pc EXCEPT ![p] = after_save(step[p])]
    /\ step' = [step EXCEPT ![p] = after_save_step(step[p])]
    /\ UNCHANGED <<Config, u, u_new, chan, sizes_q, sizes, bar, pre>>

\* comm.Gatherv(local_solution.flatten(), None, root=0), then return None.
Gatherv(p) ==
    /\ pc[p] = "gatherv" /\ p # 0
    /\ data_q' = [data_q EXCEPT ![p] = Append(@, flatten(u[p], nx_local(p), ny_local(p)))]
    /\ gathered' = [gathered EXCEPT ![p] = [kind |-> "none", step |-> step[p], field |-> <<>>]]
    /\ written' = save_solution(written, p, "none", step[p])
    /\ pc' = [pc EXCEPT ![p] = after_save(step[p])]
    /\ step' = [step EXCEPT ![p] = after_save_step(step[p])]
    /\ UNCHANGED <<Config, u, u_new, chan, sizes_q, sizes, bar, pre>>

\* Gatherv on rank 0 and the reconstruction loop; a failed reshape raises.
GathervRoot ==
    /\ pc[0] = "gatherv"
    /\ \A q \in Procs \ {0} : data_q[q] # <<>>
    /\ LET blocks == [q \in Procs |->
                        IF q = 0 THEN flatten(u[0], nx_local(0), ny_local(0))
                        ELSE Head(data_q[q])]
           res == global_solution(blocks, sizes)
       IN /\ gathered' = [gathered EXCEPT ![0] =
                 [kind |-> res.kind, step |-> step[0], field |-> res.field]]
          /\ written' = IF res.kind = "error" THEN written
                        ELSE save_solution(written, 0, res.kind, step[0])
          /\ pc' = [pc EXCEPT ![0] =
                 IF res.kind = "error" THEN "error" ELSE after_save(step[0])]
          /\ step' = [step EXCEPT ![0] =
                 IF res.kind = "error" THEN @ ELSE after_save_step(step[0])]
    /\ data_q' = [q \in Procs |-> IF q = 0 THEN <<>> ELSE Tail(data_q[q])]
    /\ UNCHANGED <<Config, u, u_new, chan, sizes_q, sizes, bar, pre>>

\* comm.Barrier(): enter, then leave once every process has entered.
BarrierEnter(p) ==
    /\ pc[p] = "barrier"
    /\ bar' = [bar EXCEPT ![p] = @ + 1]
    /\ pc' = [pc EXCEPT ![p] = "barrier_wait"]
    /\ UNCHANGED <<Config, step, u, u_new, chan, sizes_q, data_q, sizes, gathered, written, pre>>

BarrierLeave(p) ==
    /\ pc[p] = "barrier_wait"
    /\ \A q \in Procs : bar[q] >= bar[p]
    /\ pc' = [pc EXCEPT ![p] =
          IF bar[p] = 1 THEN (IF n_steps >= 1 THEN "exchange" ELSE "barrier") ELSE "done"]
    /\ step' = [step EXCEPT ![p] = IF bar[p] = 1 /\ n_steps >= 1 THEN 1 ELSE @]
    /\ UNCHANGED <<Config, u, u_new, chan, sizes_q, data_q, sizes, bar, gathered, written, pre>>

\* The send half of a sendrecv call (mpi4py: isend of the pickled copy, which does
\* not block); a send to PROC_NULL sends nothing.
isend(ch, f, p, k) ==
    IF send_dest(p, k) = PROC_NULL THEN ch
    ELSE [ch EXCEPT ![p][proc_of(send_dest(p, k))] = Append(@, sendobj(f, p, k))]

\* exchange_ghost_cells is entered: the send half of the first sendrecv.
SendrecvSend(p) ==
    /\ pc[p] = "exchange"
    /\ chan' = isend(chan, u[p], p, 1)
    /\ pre' = [pre EXCEPT ![p] = Append(@, u[p])]
    /\ pc' = [pc EXCEPT ![p] = RecvPc(1)]
    /\ UNCHANGED <<Config, step, u, u_new, sizes_q, data_q, sizes, bar, gathered, written>>

\* The receive half of the k-th sendrecv: blocks until the source's message is
\* there; from PROC_NULL it returns None at once. The result is assigned to the halo
\* slot (numpy raises when the lengths differ), and the process runs on into the
\* send half of the next sendrecv.
SendrecvRecv(p, k) ==
    /\ pc[p] = RecvPc(k)
    /\ LET src == recv_source(p, k)
           none == src = PROC_NULL
           q == IF none THEN p ELSE proc_of(src)
           data == IF none THEN <<>> ELSE Head(chan[q][p])
           fits == none \/ Len(data) = slot_len(p, k)
           taken == IF none THEN chan ELSE [chan EXCEPT ![q][p] = Tail(@)]
           f == recv_assign(p, k, none, data)
       IN /\ none \/ chan[q][p] # <<>>
          /\ u' = IF fits THEN [u EXCEPT ![p] = f] ELSE u
          /\ chan' = IF fits /\ k < 4 THEN isend(taken, f, p, k + 1) ELSE taken
          /\ pc' = [pc EXCEPT ![p] =
                IF ~fits THEN "error_halo" ELSE IF k < 4 THEN RecvPc(k + 1) ELSE "stencil"]
    /\ UNCHANGED <<Config, step, u_new, sizes_q, data_q, sizes, bar, gathered, written, pre>>

\* apply_stencil: the interior update, the swap, apply_boundary_conditions; then the
\* save test of the loop of run.
ApplyStencil(p) ==
    /\ pc[p] = "stencil"
    /\ LET nx == nx_local(p)
           ny == ny_local(p)
           computed == stencil(u[p], u_new[p], nx, ny)
       IN /\ u' = [u EXCEPT ![p] = boundary(computed, neighbors[p], nx, ny)]
          /\ u_new' = [u_new EXCEPT ![p] = boundary(u[p], neighbors[p], nx, ny)]
    /\ pc' = [pc EXCEPT ![p] =
          IF step[p] % save_interval = 0 THEN "save" ELSE after_save(step[p])]
    /\ step' = [step EXCEPT ![p] =
          IF step[p] % save_interval = 0 THEN @ ELSE after_save_step(step[p])]
    /\ UNCHANGED <<Config, chan, sizes_q, data_q, sizes, bar, gathered, written, pre>>

Next ==
    \/ \E p \in Procs : GatherSingle(p)
    \/ \E p \in Procs : GatherSizes(p)
    \/ GatherSizesRoot
    \/ \E p \in Procs : Gatherv(p)
    \/ GathervRoot
    \/ \E p \in Procs : BarrierEnter(p)
    \/ \E p \in Procs : BarrierLeave(p)
    \/ \E p \in Procs : SendrecvSend(p)
    \/ \E p \in Procs, k \in 1..4 : SendrecvRecv(p, k)
    \/ \E p \in Procs : ApplyStencil(p)

Spec == Init /\ [][Next]_vars

\* The construction of the solver and save_solution(0): the prefix of run in which
\* the partition and the offsets are applied, before any ghost-cell exchange.
NextGather ==
    \/ \E p \in Procs : GatherSingle(p)
    \/ \E p \in Procs : GatherSizes(p)
    \/ GatherSizesRoot
    \/ \E p \in Procs : Gatherv(p)
    \/ GathervRoot

SpecGather == Init /\ [][NextGather]_vars

\* exchange_ghost_cells called a second time by a process that has returned from its
\* first call, with no apply_stencil in between.
ExchangeAgain(p) ==
    /\ pc[p] = "stencil"
    /\ Len(pre[p]) = 1
    /\ pc' = [pc EXCEPT ![p] = "exchange"]
    /\ UNCHANGED <<Config, step, u, u_new, chan, sizes_q, data_q, sizes, bar, gathered,
                   written, pre>>

\* The solver is constructed, run saves the initial field and passes the Barrier, and
\* every process calls exchange_ghost_cells twice in a row.
NextTwice ==
    \/ \E p \in Procs : GatherSingle(p)
    \/ \E p \in Procs : GatherSizes(p)
    \/ GatherSizesRoot
    \/ \E p \in Procs : Gatherv(p)
    \/ GathervRoot
    \/ \E p \in Procs : BarrierEnter(p)
    \/ \E p \in Procs : BarrierLeave(p)
    \/ \E p \in Procs : SendrecvSend(p)
    \/ \E p \in Procs, k \in 1..4 : SendrecvRecv(p, k)
    \/ \E p \in Procs : ExchangeAgain(p)

SpecTwice == Init /\ [][NextTwice]_vars

\* The solver constructed by main 10 10 (HeatSolverMPI(10, 10)), for every process
\* count, followed by run.
InitScenario ==
    /\ size \in 1..MaxSize
    /\ nx_global = 10
    /\ ny_global = 10
    /\ save_interval \in {1, MaxSteps + 1}
    /\ num_steps = n_steps
    /\ send_mode = "standard"
    /\ cart_rank \in Reorderings
    /\ config = [p \in Procs |-> GridConfig(size, nx_global, ny_global, cart_rank[p])]
    /\ neighbors = [p \in Procs |-> setup_neighbors(Compute_dims(size), cart_rank[p])]
    /\ pc = [p \in Procs |-> "save"]
    /\ step = [p \in Procs |-> 0]
    /\ u = [p \in Procs |-> initial_field(neighbors[p], nx_local(p), ny_local(p))]
    /\ u_new = [p \in Procs |-> initial_field(neighbors[p], nx_local(p), ny_local(p))]
    /\ chan = [s \in Procs |-> [d \in Procs |-> <<>>]]
    /\ sizes_q = [p \in Procs |-> <<>>]
    /\ data_q = [p \in Procs |-> <<>>]
    /\ sizes = <<>>
    /\ bar = [p \in Procs |-> 0]
    /\ gathered = [p \in Procs |-> [kind |-> "unset", step |-> 0, field |-> <<>>]]
    /\ written = [p \in Procs |-> {}]
    /\ pre = [p \in Procs |-> <<>>]

SpecScenario == InitScenario /\ [][Next]_vars

\* ---------------------------------------------------- HeatSolverMPI.__init__
\* The construction of the solver from the command-line integers nx, ny of main, which
\* nothing validates: every process starts in __init__ with no Cartesian communicator
\* (cart_rank COMM_NULL), no neighbors, no config and no arrays.
InitStartup ==
    /\ size \in 1..MaxSize
    /\ nx_global \in 0..MaxN
    /\ ny_global \in 0..MaxN
    /\ save_interval \in {1, MaxSteps + 1}
    /\ num_steps = n_steps
    /\ send_mode = "standard"
    /\ cart_rank = [p \in Procs |-> COMM_NULL]
    /\ config = [p \in Procs |-> <<>>]
    /\ neighbors = [p \in Procs |-> <<>>]
    /\ pc = [p \in Procs |-> "create_cart"]
    /\ step = [p \in Procs |-> 0]
    /\ u = [p \in Procs |-> <<>>]
    /\ u_new = [p \in Procs |-> <<>>]
    /\ chan = [s \in Procs |-> [d \in Procs |-> <<>>]]
    /\ sizes_q = [p \in Procs |-> <<>>]
    /\ data_q = [p \in Procs |-> <<>>]
    /\ sizes = <<>>
    /\ bar = [p \in Procs |-> 0]
    /\ gathered = [p \in Procs |-> [kind |-> "unset", step |-> 0, field |-> <<>>]]
    /\ written = [p \in Procs |-> {}]
    /\ pre = [p \in Procs |-> <<>>]

\* setup_topology up to Create_cart: Compute_dims is local; Create_cart is collective
\* over self.comm and returns on every process with its rank in the new communicator.
CreateCart ==
    /\ \A p \in Procs : pc[p] = "create_cart"
    /\ cart_rank' \in Reorderings
    /\ pc' = [p \in Procs |-> "setup_topology"]
    /\ UNCHANGED <<size, nx_global, ny_global, save_interval, num_steps, send_mode, config, neighbors,
                   step, u,
                   u_new, chan, sizes_q, data_q, sizes, bar, gathered, written, pre>>

\* The rest of setup_topology: coords, neighbors, the local sizes, then the grid
\* spacing 1.0 / (n - 1), which raises ZeroDivisionError for n = 1, then dt and config.
SetupTopology(p) ==
    /\ pc[p] = "setup_topology"
    /\ neighbors' = [neighbors EXCEPT ![p] = setup_neighbors(Compute_dims(size), cart_rank[p])]
    /\ IF nx_global = 1 \/ ny_global = 1
       THEN /\ pc' = [pc EXCEPT ![p] = "raised"]
            /\ UNCHANGED config
       ELSE /\ pc' = [pc EXCEPT ![p] = "initialize_grid"]
            /\ config' = [config EXCEPT ![p] =
                   GridConfig(size, nx_global, ny_global, cart_rank[p])]
    /\ UNCHANGED <<size, nx_global, ny_global, save_interval, num_steps, send_mode, cart_rank, step, u,
                   u_new,
                   chan, sizes_q, data_q, sizes, bar, gathered, written, pre>>

\* initialize_grid; __init__ returns and main calls run, which starts with
\* save_solution(0).
InitializeGrid(p) ==
    /\ pc[p] = "initialize_grid"
    /\ u' = [u EXCEPT ![p] = initial_field(neighbors[p], nx_local(p), ny_local(p))]
    /\ u_new' = [u_new EXCEPT ![p] = initial_field(neighbors[p], nx_local(p), ny_local(p))]
    /\ pc' = [pc EXCEPT ![p] = "save"]
    /\ UNCHANGED <<Config, step, chan, sizes_q, data_q, sizes, bar, gathered, written, pre>>

NextStartup ==
    \/ CreateCart
    \/ \E p \in Procs : SetupTopology(p)
    \/ \E p \in Procs : InitializeGrid(p)

SpecStartup == InitStartup /\ [][NextStartup]_vars

\* ------------------------------------- heat_solver_working.py (1D row solver)
\* The second program of the repository: rows are split over the ranks of COMM_WORLD,
\* every rank holds nx_local rows with one ghost row above (0) and below (nx_local+1)
\* and all ny_global columns. Positions of a rank: "loop" (head of the time loop),
\* "send_up", "recv_up", "send_down", "recv_down" (the four calls of the exchange),
\* "update", "gather", "done", "raised".

\* num_steps // 10, the divisor of the progress report.
progress_interval == num_steps \div 10

\* dist < radius for the cell with global row gi and column j (both sides squared).
hot_center(gi, j) ==
    LET center_x == nx_global \div 2
        center_y == ny_global \div 2
        radius == Min(nx_global, ny_global) \div 10
    IN (gi - center_x) * (gi - center_x) + (j - center_y) * (j - center_y) < radius * radius

\* The local sizes and start_row of a rank.
RowConfig(n, Nx, Ny, rank) ==
    [nx_local |-> nx_local_1d(Nx, n, rank), ny_local |-> Ny,
     start_row |-> start_row(Nx, n, rank)]

\* np.zeros((nx_local + 2, ny_local)) with the hot centre set to 100.0.
hot_field(p) ==
    [i \in 0..(nx_local(p) + 1) |->
        [j \in 0..(ny_local(p) - 1) |->
            IF i \in 1..nx_local(p) /\ hot_center(config[p].start_row + i - 1, j)
            THEN 100 * Scale ELSE 0]]

\* np.zeros((nx_local + 2, ny_local)).
zero_field(p) ==
    [i \in 0..(nx_local(p) + 1) |-> [j \in 0..(ny_local(p) - 1) |-> 0]]

Init1D ==
    /\ size \in 1..MaxSize
    /\ nx_global \in 2..MaxN
    /\ ny_global \in 2..MaxN
    /\ save_interval = 1
    /\ num_steps \in {MaxSteps, 10}
    /\ send_mode \in {"standard", "synchronous"}
    /\ cart_rank = COMM_NULL
    /\ config = [p \in Procs |-> RowConfig(size, nx_global, ny_global, p)]
    /\ neighbors = <<>>
    /\ pc = [p \in Procs |-> "loop"]
    /\ step = [p \in Procs |-> 0]
    /\ u = [p \in Procs |-> hot_field(p)]
    /\ u_new = [p \in Procs |-> zero_field(p)]
    /\ chan = [s \in Procs |-> [d \in Procs |-> <<>>]]
    /\ sizes_q = [p \in Procs |-> <<>>]
    /\ data_q = [p \in Procs |-> <<>>]
    /\ sizes = <<>>
    /\ bar = [p \in Procs |-> 0]
    /\ gathered = [p \in Procs |-> [kind |-> "unset", step |-> 0, field |-> <<>>]]
    /\ written = [p \in Procs |-> {}]
    /\ pre = [p \in Procs |-> <<>>]

\* The position after the exchange with rank-1: the exchange with rank+1, if any.
after_up(p) == IF p < size - 1 THEN "send_down" ELSE "update"

\* for step in range(num_steps): the first call of the exchange, or the end of the loop.
LoopHead1D(p) ==
    /\ pc[p] = "loop"
    /\ pc' = [pc EXCEPT ![p] =
          IF step[p] >= num_steps THEN "gather"
          ELSE IF p > 0 THEN "send_up" ELSE after_up(p)]
    /\ UNCHANGED <<Config, step, u, u_new, chan, sizes_q, data_q, sizes, bar, gathered,
                   written, pre>>

\* The call a rank is in: destination/source, tag, array row sent, array row received.
send_peer(p) == IF pc[p] = "send_up" THEN p - 1 ELSE p + 1

send_tag(p) == IF pc[p] = "send_up" THEN 1 ELSE 2

send_row(p) == IF pc[p] = "send_up" THEN u[p][1] ELSE u[p][nx_local(p)]

after_send(p) == IF pc[p] = "send_up" THEN "recv_up" ELSE "recv_down"

recv_peer(p) == IF pc[p] = "recv_up" THEN p - 1 ELSE p + 1

recv_tag(p) == IF pc[p] = "recv_up" THEN 2 ELSE 1

recv_index(p) == IF pc[p] = "recv_up" THEN 0 ELSE nx_local(p) + 1

after_recv(p) == IF pc[p] = "recv_up" THEN after_up(p) ELSE "update"

\* comm.Send in standard mode, message buffered by the library: the call returns
\* before the receive is posted.
SendBuffered1D(p) ==
    /\ pc[p] \in {"send_up", "send_down"}
    /\ send_mode = "standard"
    /\ chan' = [chan EXCEPT ![p][send_peer(p)] =
                   Append(@, [tag |-> send_tag(p), data |-> send_row(p)])]
    /\ pc' = [pc EXCEPT ![p] = after_send(p)]
    /\ UNCHANGED <<Config, step, u, u_new, sizes_q, data_q, sizes, bar, gathered,
                   written, pre>>

\* comm.Send not buffered: the call returns once the destination is in the matching
\* comm.Recv, which receives the row and returns as well.
SendRendezvous1D(p) ==
    /\ pc[p] \in {"send_up", "send_down"}
    /\ LET q == send_peer(p) IN
        /\ pc[q] \in {"recv_up", "recv_down"}
        /\ recv_peer(q) = p
        /\ recv_tag(q) = send_tag(p)
        /\ chan[p][q] = <<>>
        /\ u' = [u EXCEPT ![q][recv_index(q)] = send_row(p)]
        /\ pc' = [pc EXCEPT ![p] = after_send(p), ![q] = after_recv(q)]
    /\ UNCHANGED <<Config, step, u_new, chan, sizes_q, data_q, sizes, bar, gathered,
                   written, pre>>

\* comm.Recv of a buffered message.
Recv1D(p) ==
    /\ pc[p] \in {"recv_up", "recv_down"}
    /\ LET q == recv_peer(p) IN
        /\ chan[q][p] # <<>>
        /\ Head(chan[q][p]).tag = recv_tag(p)
        /\ u' = [u EXCEPT ![p][recv_index(p)] = Head(chan[q][p]).data]
        /\ chan' = [chan EXCEPT ![q][p] = Tail(@)]
    /\ pc' = [pc EXCEPT ![p] = after_recv(p)]
    /\ UNCHANGED <<Config, step, u_new, sizes_q, data_q, sizes, bar, gathered, written,
                   pre>>

\* The interior update, the two fixed columns, the swap; dt*alpha/dx^2 = RM/RD_1d
\* and dt*alpha/dy^2 = RN/RD_1d, and RD_1d = RD.
update_1d(p) ==
    [i \in 0..(nx_local(p) + 1) |->
        [j \in 0..(ny_local(p) - 1) |->
            IF i \in 1..nx_local(p) /\ j \in {0, ny_local(p) - 1} THEN 0
            ELSE IF i \in 1..nx_local(p)
            THEN stencil_cell(u[p][i][j], u[p][i - 1][j], u[p][i + 1][j],
                              u[p][i][j - 1], u[p][i][j + 1])
            ELSE u_new[p][i][j]]]

\* One pass of the loop body after the exchange. The progress report of rank 0
\* divides by progress_interval: ZeroDivisionError when num_steps < 10.
Update1D(p) ==
    /\ pc[p] = "update"
    /\ u' = [u EXCEPT ![p] = update_1d(p)]
    /\ u_new' = [u_new EXCEPT ![p] = u[p]]
    /\ IF p = 0 /\ progress_interval = 0
       THEN pc' = [pc EXCEPT ![p] = "raised"] /\ step' = step
       ELSE pc' = [pc EXCEPT ![p] = "loop"] /\ step' = [step EXCEPT ![p] = @ + 1]
    /\ UNCHANGED <<Config, chan, sizes_q, data_q, sizes, bar, gathered, written, pre>>

\* center_temp of a rank: the centre cell if the rank holds its row, else None.
center_temp(p) ==
    LET center_local_i == (nx_global \div 2) - config[p].start_row
    IN IF center_local_i >= 0 /\ center_local_i < nx_local(p)
       THEN <<u[p][center_local_i + 1][ny_global \div 2]>> ELSE <<>>

\* comm.gather(center_temp, root=0) on a rank other than 0.
GatherCenter1D(p) ==
    /\ pc[p] = "gather"
    /\ p # 0
    /\ data_q' = [data_q EXCEPT ![p] = Append(@, center_temp(p))]
    /\ pc' = [pc EXCEPT ![p] = "done"]
    /\ UNCHANGED <<Config, step, u, u_new, chan, sizes_q, sizes, bar, gathered, written,
                   pre>>

\* comm.gather on rank 0, then the first value that is not None.
GatherCenterRoot1D ==
    /\ pc[0] = "gather"
    /\ \A p \in Procs \ {0} : data_q[p] # <<>>
    /\ LET all_center_temps ==
               [p \in Procs |-> IF p = 0 THEN center_temp(0) ELSE Head(data_q[p])]
           first == CHOOSE p \in Procs :
                        /\ all_center_temps[p] # <<>>
                        /\ \A q \in 0..(p - 1) : all_center_temps[q] = <<>>
       IN gathered' = [gathered EXCEPT ![0] =
              [kind |-> "center", step |-> step[0], field |-> all_center_temps[first]]]
    /\ data_q' = [p \in Procs |-> IF p = 0 THEN data_q[p] ELSE Tail(data_q[p])]
    /\ pc' = [pc EXCEPT ![0] = "done"]
    /\ UNCHANGED <<Config, step, u, u_new, chan, sizes_q, sizes, bar, written, pre>>

Next1D ==
    \/ \E p \in Procs : LoopHead1D(p)
    \/ \E p \in Procs : SendBuffered1D(p)
    \/ \E p \in Procs : SendRendezvous1D(p)
    \/ \E p \in Procs : Recv1D(p)
    \/ \E p \in Procs : Update1D(p)
    \/ \E p \in Procs : GatherCenter1D(p)
    \/ GatherCenterRoot1D

Spec1D == Init1D /\ [][Next1D]_vars

\* ================================================================= claims
RecvPcs == {"recv1", "recv2", "recv3", "recv4"}

\* No step of any process is possible.
Terminal == ~ENABLED Next

\* The process at the coordinates reached from p by (dx, dy), or PROC_NULL: the
\* Cartesian grid as the processes themselves are laid out on it.
grid_neighbor(p, dx, dy) ==
    LET c == <<coords(p)[1] + dx, coords(p)[2] + dy>>
    IN IF \E q \in Procs : coords(q) = c
       THEN cart_rank[CHOOSE q \in Procs : coords(q) = c]
       ELSE PROC_NULL

\* The four sides: the neighbour the topology has there, the halo cells of the side
\* (corners left out), and the neighbour's interior cell next to a halo cell.
Sides == {"north", "south", "west", "east"}

side_neighbor(p, sd) ==
    CASE sd = "north" -> grid_neighbor(p, -1, 0)
      [] sd = "south" -> grid_neighbor(p, 1, 0)
      [] sd = "west" -> grid_neighbor(p, 0, -1)
      [] sd = "east" -> grid_neighbor(p, 0, 1)

halo_cells(p, sd) ==
    CASE sd = "north" -> {<<0, j>> : j \in 1..ny_local(p)}
      [] sd = "south" -> {<<nx_local(p) + 1, j>> : j \in 1..ny_local(p)}
      [] sd = "west" -> {<<i, 0>> : i \in 1..nx_local(p)}
      [] sd = "east" -> {<<i, ny_local(p) + 1>> : i \in 1..nx_local(p)}

facing_cell(q, sd, c) ==
    CASE sd = "north" -> <<nx_local(q), c[2]>>
      [] sd = "south" -> <<1, c[2]>>
      [] sd = "west" -> <<c[1], ny_local(q)>>
      [] sd = "east" -> <<c[1], 1>>

edge_value(sd) == IF sd = "north" THEN T_HOT * Scale ELSE T_COLD * Scale

\* C1: the halo exchange is deadlock-free: every sendrecv is matched, so when nothing
\* can move any more no process is still inside exchange_ghost_cells waiting for
\* its receive, and no message that was sent is left without a receiver.
C1_ExchangeDeadlockFree ==
    Terminal =>
        /\ \A p \in Procs : pc[p] \notin RecvPcs
        /\ \A s \in Procs, d \in Procs : chan[s][d] = <<>>

\* C2: the neighbour map of every process is the rank at coords -/+ 1 on each axis
\* (north cx-1, south cx+1, west cy-1, east cy+1), PROC_NULL exactly out of range.
C2_NeighborMap ==
    \A p \in Procs :
        LET c == coords(p)
        IN /\ neighbors[p].north = Get_cart_rank(dims, <<c[1] - 1, c[2]>>)
           /\ neighbors[p].south = Get_cart_rank(dims, <<c[1] + 1, c[2]>>)
           /\ neighbors[p].west = Get_cart_rank(dims, <<c[1], c[2] - 1>>)
           /\ neighbors[p].east = Get_cart_rank(dims, <<c[1], c[2] + 1>>)

\* C3: once a process has returned from exchange_ghost_cells, on every side where the
\* topology gives it a neighbour its halo row/column (corners left out) holds the
\* neighbour's adjacent interior row/column as it was when the neighbour entered the
\* exchange of that step; no received message misses the length of its halo slot.
C3_HaloHoldsNeighborEdge ==
    \A p \in Procs :
        /\ pc[p] # "error_halo"
        /\ pc[p] = "stencil" =>
             \A sd \in Sides :
                LET r == side_neighbor(p, sd)
                    q == proc_of(r)
                IN (r # PROC_NULL /\ Len(pre[q]) >= step[p]) =>
                      \A c \in halo_cells(p, sd) :
                         LET d == facing_cell(q, sd, c)
                         IN u[p][c[1]][c[2]] = pre[q][step[p]][d[1]][d[2]]

\* C4: on a side whose source is PROC_NULL exchange_ghost_cells exchanges nothing and
\* leaves the halo row/column of u as it was when the exchange was entered, so the
\* Dirichlet values are still there when the stencil reads the halo.
C4_NoNeighborHaloUnchanged ==
    \A p \in Procs :
        pc[p] = "stencil" =>
            \A sd \in Sides :
                neighbors[p][sd] = PROC_NULL =>
                    \A c \in halo_cells(p, sd) :
                        u[p][c[1]][c[2]] = pre[p][step[p]][c[1]][c[2]]

\* C5: after apply_boundary_conditions (at construction and at the end of every
\* apply_stencil), on every side of a process that lies on the global domain edge the
\* halo cells of u and u_new hold the value of that edge (top hot, the others cold).
C5_GlobalEdgeHalo ==
    \A p \in Procs :
        pc[p] \notin (RecvPcs \cup {"stencil"}) =>
            \A sd \in Sides :
                side_neighbor(p, sd) = PROC_NULL =>
                    \A c \in halo_cells(p, sd) :
                        /\ u[p][c[1]][c[2]] = edge_value(sd)
                        /\ u_new[p][c[1]][c[2]] = edge_value(sd)

\* The process laid out at coordinates (cx, cy).
proc_at(cx, cy) == CHOOSE p \in Procs : coords(p) = <<cx, cy>>

RECURSIVE sum_nx_local(_, _)
sum_nx_local(cx, cy) ==
    IF cx < 0 THEN 0 ELSE sum_nx_local(cx - 1, cy) + config[proc_at(cx, cy)].nx_local

RECURSIVE sum_ny_local(_, _)
sum_ny_local(cx, cy) ==
    IF cy < 0 THEN 0 ELSE sum_ny_local(cx, cy - 1) + config[proc_at(cx, cy)].ny_local

RECURSIVE sum_nx_local_1d(_)
sum_nx_local_1d(rank) ==
    IF rank < 0 THEN 0
    ELSE sum_nx_local_1d(rank - 1) + nx_local_1d(nx_global, size, rank)

\* C6: along each axis the local interior sizes of setup_topology add up to the global
\* dimension exactly and differ by at most 1; so do the row counts of the 1D solver.
C6_SizesSumToGlobal ==
    /\ \A cy \in 0..(dims[2] - 1) : sum_nx_local(dims[1] - 1, cy) = nx_global
    /\ \A cx \in 0..(dims[1] - 1) : sum_ny_local(cx, dims[2] - 1) = ny_global
    /\ \A p \in Procs, q \in Procs :
          /\ config[p].nx_local - config[q].nx_local \in -1..1
          /\ config[p].ny_local - config[q].ny_local \in -1..1
    /\ sum_nx_local_1d(size - 1) = nx_global
    /\ \A r \in Procs, t \in Procs :
          nx_local_1d(nx_global, size, r) - nx_local_1d(nx_global, size, t) \in -1..1

\* Rank 0 has reassembled a field from several blocks of unequal height.
C6_Witness ==
    /\ gathered[0].kind = "array"
    /\ dims[1] > 1
    /\ nx_global % dims[1] # 0
    /\ \E p \in Procs : config[p].nx_local # config[0].nx_local

\* C7: the offsets of the reassembly tile each axis: offset(0) = 0 and
\* offset(c) + local_size(c) = offset(c + 1), with the local sizes the processes
\* computed in setup_topology; start_row of the 1D solver tiles the rows the same way.
C7_OffsetsTile ==
    /\ \A p \in Procs :
          /\ coords(p)[1] = 0 => offset(nx_global, dims[1], coords(p)[1]) = 0
          /\ coords(p)[2] = 0 => offset(ny_global, dims[2], coords(p)[2]) = 0
    /\ \A p \in Procs, q \in Procs :
          /\ coords(q) = <<coords(p)[1] + 1, coords(p)[2]>> =>
                offset(nx_global, dims[1], coords(p)[1]) + config[p].nx_local
                   = offset(nx_global, dims[1], coords(q)[1])
          /\ coords(q) = <<coords(p)[1], coords(p)[2] + 1>> =>
                offset(ny_global, dims[2], coords(p)[2]) + config[p].ny_local
                   = offset(ny_global, dims[2], coords(q)[2])
    /\ start_row(nx_global, size, 0) = 0
    /\ \A r \in 0..(size - 2) :
          start_row(nx_global, size, r) + nx_local_1d(nx_global, size, r)
             = start_row(nx_global, size, r + 1)

\* Rank 0 has placed a block at a non-zero offset behind a block that took one of
\* the remainder rows.
C7_Witness ==
    /\ gathered[0].kind = "array"
    /\ nx_global % dims[1] # 0
    /\ \E p \in Procs : i_start(p) > nx_global \div dims[1]

\* The block of the global array a process owns by the coordinates it partitioned
\* with, and the process owning a global cell.
own_i0(p) == offset(nx_global, dims[1], coords(p)[1])

own_j0(p) == offset(ny_global, dims[2], coords(p)[2])

owns(p, i, j) ==
    /\ i \in own_i0(p)..(own_i0(p) + nx_local(p) - 1)
    /\ j \in own_j0(p)..(own_j0(p) + ny_local(p) - 1)

owner(i, j) == CHOOSE p \in Procs : owns(p, i, j)

\* The interior value process p contributes to the gather for its cell (i, j): its
\* own interior on rank 0, the block it sent otherwise.
contributed(p, i, j) ==
    IF p = 0 THEN u[0][i - own_i0(p) + 1][j - own_j0(p) + 1]
    ELSE Head(data_q[p])[(i - own_i0(p)) * ny_local(p) + (j - own_j0(p)) + 1]

\* C8: whenever gather_global_solution returns on rank 0 it returns an
\* (nx_global, ny_global) array; every cell is written by exactly one block of the
\* loop and holds the interior value of the one process that owns the cell.
C8_GatherPlacesBlocks ==
    [][(pc[0] \in {"save", "gatherv"} /\ pc'[0] \notin {"save", "gatherv"}) =>
          /\ gathered'[0].kind = "array"
          /\ DOMAIN gathered'[0].field = 0..(nx_global - 1)
          /\ \A i \in 0..(nx_global - 1) :
                /\ DOMAIN gathered'[0].field[i] = 0..(ny_global - 1)
                /\ \A j \in 0..(ny_global - 1) :
                      /\ Cardinality({p \in Procs :
                            /\ i \in i_start(p)..(i_start(p) + p_nx_local(p) - 1)
                            /\ j \in j_start(p)..(j_start(p) + p_ny_local(p) - 1)}) = 1
                      /\ gathered'[0].field[i][j] = contributed(owner(i, j), i, j)]_vars

\* C9: the coordinates the reassembly gives the block at position p of the gather,
\* cart_comm.Get_coords(p), are the coordinates process p partitioned with.
C9_SameRankMapping ==
    \A p \in Procs : p_coords(p) = config[p].coords

\* The same solver run by a single process on the whole grid: every neighbour is
\* PROC_NULL, so each sendrecv returns None, and run repeats exchange, stencil, swap
\* and boundary conditions. single_run(t) is <<u, u_new>> after t steps.
single_neighbors == setup_neighbors(<<1, 1>>, 0)

single_exchange(f) ==
    LET f1 == assign_row(f, nx_global + 1, ny_global, TRUE, <<>>)
        f2 == assign_row(f1, 0, ny_global, TRUE, <<>>)
        f3 == assign_col(f2, ny_global + 1, nx_global, TRUE, <<>>)
    IN assign_col(f3, 0, nx_global, TRUE, <<>>)

RECURSIVE single_run(_)
single_run(t) ==
    IF t = 0
    THEN <<initial_field(single_neighbors, nx_global, ny_global),
           initial_field(single_neighbors, nx_global, ny_global)>>
    ELSE LET before == single_run(t - 1)
             f == single_exchange(before[1])
             computed == stencil(f, before[2], nx_global, ny_global)
         IN <<boundary(computed, single_neighbors, nx_global, ny_global),
              boundary(f, single_neighbors, nx_global, ny_global)>>

single_solution(t) == local_solution(single_run(t)[1], nx_global, ny_global)

\* C10: the decomposed run yields, at every step it gathers, the global field of the
\* single-process run of the same step, and like that run it gets to its end. Stated
\* for the runs in which Create_cart keeps every process's rank and every process
\* owns at least one row and one column (NaN cells count as equal to NaN cells).
C10_DecompositionInvariant ==
    (\A p \in Procs : cart_rank[p] = p /\ nx_local(p) >= 1 /\ ny_local(p) >= 1) =>
        /\ \A p \in Procs :
              gathered[p].kind = "array" =>
                 gathered[p].field = single_solution(gathered[p].step)
        /\ Terminal => \A p \in Procs : pc[p] = "done"

\* C11: within every step of run, on every process: all four receives of the exchange
\* are done before apply_stencil reads a halo cell; apply_stencil (update, swap,
\* boundary conditions) is done before the next exchange begins, and the exchange of
\* step t+1 begins only when step t is complete. Across processes: on every side
\* where the topology gives a process a neighbour, the halo value apply_stencil reads
\* in step t is the neighbour's interior-edge value at its own exchange of step t.
C11_StepOrdering ==
    [][\A p \in Procs :
          /\ (pc[p] # "stencil" /\ pc'[p] = "stencil") => pc[p] = "recv4"
          /\ (pc[p] # "exchange" /\ pc'[p] = "exchange") =>
                /\ pc[p] \in {"stencil", "save", "gatherv", "barrier_wait"}
                /\ step'[p] = Len(pre[p]) + 1
          /\ (pc[p] = "stencil" /\ pc'[p] # "stencil") =>
                /\ step[p] = Len(pre[p])
                /\ \A sd \in Sides :
                      LET r == side_neighbor(p, sd)
                          q == proc_of(r)
                      IN r # PROC_NULL =>
                            /\ Len(pre[q]) >= step[p]
                            /\ \A c \in halo_cells(p, sd) :
                                  LET d == facing_cell(q, sd, c)
                                  IN u[p][c[1]][c[2]] = pre[q][step[p]][d[1]][d[2]]]_vars

\* C12: for every valid input (nx_global, ny_global >= 2, any process count >= 1) the
\* nx_local and ny_local every process computes in setup_topology are positive.
C12_LocalSizesPositive ==
    \A p \in Procs : config[p].nx_local >= 1 /\ config[p].ny_local >= 1

\* C13: a configuration error (a grid dimension that is not an integer >= 2) makes
\* every process fail at startup before any communication operation: no process
\* creates the Cartesian topology, and none gets past the construction of the solver.
C13_ConfigErrorFailsFast ==
    (nx_global < 2 \/ ny_global < 2) =>
        \A p \in Procs :
            /\ cart_rank[p] = COMM_NULL
            /\ pc[p] \in {"create_cart", "raised"}

C15_ConcreteScenario ==
    (size = 1 /\ Len(pre[0]) = 1 /\ pc[0] \notin (RecvPcs \cup {"stencil"})) =>
        /\ u[0][1][1] # NaN
        /\ u[0][1][1] > T_INITIAL * Scale /\ u[0][1][1] < T_HOT * Scale
        /\ u[0][nx_global - 1][1] # NaN
        /\ u[0][nx_global - 1][1] > T_COLD * Scale
        /\ u[0][nx_global - 1][1] < T_INITIAL * Scale

\* The single-process solver on a uniform field whose halo holds the interior value:
\* one step is exchange_ghost_cells, then the stencil into u_new and the swap (the
\* boundary conditions touch only halo cells, which compute_max_error does not read).
uniform_field == full(nx_global, ny_global, T_INITIAL * Scale)

uniform_exchanged == single_exchange(uniform_field)

uniform_next == stencil(uniform_exchanged, uniform_field, nx_global, ny_global)

uniform_max_error ==
    allreduce_max({local_max(uniform_next, uniform_exchanged, nx_global, ny_global)})

\* C16: once every process has completed a step, compute_max_error returns, on every
\* process, the maximum over all processes and interior cells of |u_new - u|; and
\* after one step from a uniform field with boundary values equal to the interior
\* value that maximum is zero.
C16_GlobalMaxError ==
    (\A p \in Procs : Len(pre[p]) >= 1 /\ pc[p] \notin (RecvPcs \cup {"exchange", "stencil"})) =>
        /\ ~compute_max_error_raises
        /\ \A v \in compute_max_error :
              /\ v # NaN
              /\ \A p \in Procs :
                    \A d \in interior_diffs(u[p], u_new[p], nx_local(p), ny_local(p)) :
                       d # NaN /\ d <= v
              /\ \E p \in Procs :
                    v \in interior_diffs(u[p], u_new[p], nx_local(p), ny_local(p))
        /\ size = 1 => uniform_max_error = {0}

\* C17: for size > 1 gather_global_solution returns a result only on rank 0 and None on
\* every other process, so only rank 0 ever writes a snapshot file; for size = 1 it
\* returns the local interior block and issues no transfer.
C17_GatherOnlyOnRoot ==
    /\ \A p \in Procs \ {0} :
          /\ gathered[p].kind \in {"unset", "none"}
          /\ written[p] = {}
    /\ size > 1 => gathered[0].kind # "none"
    /\ written[0] # {} => gathered[0].kind = "array"
    /\ size = 1 =>
          /\ sizes_q[0] = <<>> /\ data_q[0] = <<>> /\ sizes = <<>>
          /\ gathered[0].kind = "array" =>
                gathered[0].field = local_solution(u[0], nx_global, ny_global)

\* Several processes have gathered: rank 0 holds the array and has written the
\* snapshot of step 0, every other process got None and wrote nothing.
C17_Witness ==
    /\ size > 1
    /\ gathered[0].kind = "array" /\ written[0] = {0}
    /\ \A p \in Procs \ {0} : gathered[p].kind = "none" /\ written[p] = {}

\* C18: the halo exchange is idempotent: when a process returns from a second
\* exchange_ghost_cells run right after the first (all processes doing the same, no
\* stencil update in between), its fields are those it had after the first exchange.
C18_ExchangeIdempotent ==
    \A p \in Procs :
        (pc[p] = "stencil" /\ Len(pre[p]) = 2) =>
            /\ u[p] = pre[p][2]
            /\ u_new[p] = initial_field(neighbors[p], nx_local(p), ny_local(p))

\* C19: after the boundary conditions at the end of a step (after the stencil update
\* and the swap), every halo cell of u on a side where the process exchanges with a
\* neighbour holds the value most recently received from that neighbour in
\* exchange_ghost_cells: the neighbour's interior edge as of the exchange of that step.
\* Stated for the runs in which every process owns at least one row and one column.
C19_HaloHoldsLastReceived ==
    (\A p \in Procs : nx_local(p) >= 1 /\ ny_local(p) >= 1) =>
        \A p \in Procs :
            (Len(pre[p]) >= 1 /\ pc[p] \notin (RecvPcs \cup {"stencil"})) =>
                \A sd \in Sides :
                    LET r == neighbors[p][sd]
                        q == proc_of(r)
                    IN r # PROC_NULL =>
                          /\ Len(pre[q]) >= Len(pre[p])
                          /\ \A c \in halo_cells(p, sd) :
                                LET d == facing_cell(q, sd, c)
                                IN u[p][c[1]][c[2]] = pre[q][Len(pre[p])][d[1]][d[2]]

\* The whole halo row or column of a side, with its two corner cells.
halo_line(p, sd) ==
    CASE sd = "north" -> {<<0, j>> : j \in 0..(ny_local(p) + 1)}
      [] sd = "south" -> {<<nx_local(p) + 1, j>> : j \in 0..(ny_local(p) + 1)}
      [] sd = "west" -> {<<i, 0>> : i \in 0..(nx_local(p) + 1)}
      [] sd = "east" -> {<<i, ny_local(p) + 1>> : i \in 0..(nx_local(p) + 1)}

\* C20: apply_boundary_conditions leaves untouched the halo of every side on which the
\* process has a neighbour, the whole row or column with its two corner cells, in u
\* and in u_new: in initialize_grid, where both arrays are full of T_INITIAL before
\* the call, and at the end of apply_stencil, where the call gets the swapped arrays.
C20_BoundaryLeavesNeighborHalo ==
    \A p \in Procs : \A sd \in Sides :
        side_neighbor(p, sd) # PROC_NULL =>
            \A c \in halo_line(p, sd) :
                /\ Len(pre[p]) = 0 =>
                      /\ u[p][c[1]][c[2]] = T_INITIAL * Scale
                      /\ u_new[p][c[1]][c[2]] = T_INITIAL * Scale
                /\ pc[p] = "stencil" =>
                      LET nx == nx_local(p)
                          ny == ny_local(p)
                          computed == stencil(u[p], u_new[p], nx, ny)
                      IN /\ boundary(computed, neighbors[p], nx, ny)[c[1]][c[2]]
                               = computed[c[1]][c[2]]
                         /\ boundary(u[p], neighbors[p], nx, ny)[c[1]][c[2]]
                               = u[p][c[1]][c[2]]

\* C21. The ghost exchange of the 1D row solver under synchronous (unbuffered)
\* blocking sends: no two neighbouring ranks are both in a send to each other, and
\* when nothing can move any more no rank is left inside a call of the exchange.
C21_RowExchangeCompletes ==
    send_mode = "synchronous" =>
        /\ \A p \in Procs : p + 1 \in Procs =>
               ~(pc[p] = "send_down" /\ pc[p + 1] = "send_up")
        /\ (~ENABLED Next1D) =>
               \A p \in Procs : pc[p] \notin {"send_up", "recv_up", "send_down", "recv_down"}

\* Positions in which a process is inside a collective call of run.
in_collective(p) == pc[p] \in {"save", "gatherv", "barrier", "barrier_wait"}

\* C22. Collectives are entered consistently: a process is in save_solution only at
\* step 0 or at a step that save_interval divides (whatever its rank), and when
\* nothing can move any more no process is waiting in a collective that another
\* process never enters, and no gather message is left unmatched.
C22_CollectivesConsistent ==
    /\ \A p \in Procs : pc[p] \in {"save", "gatherv"} =>
           (step[p] = 0 \/ step[p] % save_interval = 0)
    /\ Terminal =>
           /\ \A p \in Procs : ~in_collective(p)
           /\ \A p \in Procs : sizes_q[p] = <<>> /\ data_q[p] = <<>>

====
